---- MODULE Spec2Model ----
(***************************************************************************)
(* The room / phase state machine of the Mafia game server                 *)
(* (src/unnamed/part_000): the in-memory room registry, the socket         *)
(* handlers, the timer-driven phase cycle, vote and night resolution and   *)
(* the win check.                                                          *)
(*                                                                         *)
(* A socket id names one connection; socket.io never hands the same id to  *)
(* a second connection, so a connection that has disconnected sends        *)
(* nothing more.  Player ids ARE socket ids (join_room stores socket.id).  *)
(***************************************************************************)
EXTENDS Integers, Sequences, FiniteSets, TLC

VARIABLES
    rooms,      \* the registry: a function from the live room codes to rooms
    order,      \* the live room codes in the order the Map iterates them
    stale,      \* room code -> pending wake-ups whose room object was deleted
    gone,       \* socket ids whose connection has been closed
    out         \* the messages the last step sent, where they are observed

vars == <<rooms, order, stale, gone, out>>

----------------------------------------------------------------------------
(* Values *)

\* null, where the code holds an id, a role or a winner
Null == "null"
\* phaseEndsAt: null
NoDeadline == 0

\* ROLES
TOWN == "TOWN"
MAFIA == "MAFIA"
DOCTOR == "DOCTOR"
DETECTIVE == "DETECTIVE"

\* PHASES
LOBBY == "LOBBY"
DAY_DISCUSSION == "DAY_DISCUSSION"
DAY_VOTING == "DAY_VOTING"
SLEEP == "SLEEP"
PH_DOCTOR == "DOCTOR"
PH_MAFIA == "MAFIA"
EXECUTION == "EXECUTION"
PH_DETECTIVE == "DETECTIVE"
ANNOUNCEMENT == "ANNOUNCEMENT"
ENDED == "ENDED"

TimedPhases ==
    {DAY_DISCUSSION, DAY_VOTING, SLEEP, PH_DOCTOR, PH_MAFIA, EXECUTION,
     PH_DETECTIVE, ANNOUNCEMENT}

\* SETTINGS: the duration of a phase in seconds
SETTINGS(phase) ==
    CASE phase = DAY_DISCUSSION -> 720
      [] phase = DAY_VOTING     -> 180
      [] phase = SLEEP          -> 60
      [] phase = PH_DOCTOR      -> 120
      [] phase = PH_MAFIA       -> 180
      [] phase = EXECUTION      -> 180
      [] phase = PH_DETECTIVE   -> 180
      [] phase = ANNOUNCEMENT   -> 15

\* start_game refuses a room with fewer players than this
MinPlayers == 6

----------------------------------------------------------------------------
(* The inputs the environment sends *)

\* room codes makeRoomCode can return
Codes == {"A"}
\* a room code no room ever has
BadCode == "ZZZZZ"

\* connections that join as players, in the order in which they first join
PlayerConns == <<"p1", "p2", "p3", "p4", "p5", "p6", "p7">>
PlayerConnSet == {PlayerConns[i] : i \in 1..Len(PlayerConns)}
Conns == {"h", "g"} \cup PlayerConnSet

\* no room is given more player records than this
MaxPlayers == 6
\* no room is given more records of ExtraJoiners than this
MaxExtraJoins == 1
\* no room is driven past this round
MaxRound == 2
\* the largest lobby the role assignment is run on
MaxLobby == 13

----------------------------------------------------------------------------
(* Helpers on the player list *)

\* room.players.find((p) => p.id === id): the index of the first record
\* with this id, 0 when there is none
FindPlayer(players, id) ==
    IF \E i \in 1..Len(players) : players[i].id = id
    THEN CHOOSE i \in 1..Len(players) :
            /\ players[i].id = id
            /\ \A j \in 1..(i - 1) : players[j].id # id
    ELSE 0

alivePlayers(room) == SelectSeq(room.players, LAMBDA p : p.alive)

\* alive.find((p) => p.id === id) is truthy
InList(list, id) == \E i \in 1..Len(list) : list[i].id = id

CountRole(list, role) ==
    Cardinality({i \in 1..Len(list) : list[i].role = role})

aliveCounts(room) ==
    LET alive == alivePlayers(room)
        mafia == CountRole(alive, MAFIA)
    IN  [mafia |-> mafia, town |-> Len(alive) - mafia]

\* the Mafia win only when they outnumber the others
checkWinStrict(room) ==
    LET c == aliveCounts(room)
    IN  IF c.mafia = 0 THEN "TOWN"
        ELSE IF c.mafia > c.town THEN "MAFIA"
        ELSE Null

checkWin(room) ==
    LET c == aliveCounts(room)
    IN  IF c.mafia = 0 THEN "TOWN"
        ELSE IF c.mafia >= c.town THEN "MAFIA"
        ELSE Null

----------------------------------------------------------------------------
(* startPhase, endGame *)

\* The room after startPhase(roomCode, phase, SETTINGS[phase]).  The deadline
\* is kept relative to the moment of entry; timer = TRUE says that the
\* room's wake-up handle is still pending (the old one is cleared first).
\* the tallies and the protection of the cycle before are kept
startPhaseNoReset(room, phase) ==
    [room EXCEPT
        !.phase = phase,
        !.phaseEndsAt = SETTINGS(phase),
        !.timer = TRUE]

startPhase(room, phase) ==
    [room EXCEPT
        !.phase = phase,
        !.phaseEndsAt = SETTINGS(phase),
        !.dayVotes = IF phase = DAY_VOTING THEN <<>> ELSE @,
        !.night = [doctorTargetId |->
                       IF phase = PH_DOCTOR THEN Null ELSE @.doctorTargetId,
                   mafiaVotes |->
                       IF phase = PH_MAFIA THEN <<>> ELSE @.mafiaVotes,
                   detectiveTargetId |->
                       IF phase = PH_DETECTIVE THEN Null
                       ELSE @.detectiveTargetId],
        !.timer = TRUE]

\* the deadline of the last phase is left in place
endGameKeepsDeadline(room, winner) ==
    [room EXCEPT
        !.phase = ENDED,
        !.timer = FALSE,
        !.announcement = <<"GAME OVER", winner>>]

endGame(room, winner) ==
    [room EXCEPT
        !.phase = ENDED,
        !.phaseEndsAt = NoDeadline,
        !.timer = FALSE,
        !.announcement = <<"GAME OVER", winner>>]

----------------------------------------------------------------------------
(* Vote resolution *)

\* counts.set(targetId, (counts.get(targetId) || 0) + 1) on a Map kept as
\* the sequence of its entries <<key, value>> in insertion order
CountsAdd(counts, targetId) ==
    IF \E i \in 1..Len(counts) : counts[i][1] = targetId
    THEN [i \in 1..Len(counts) |->
            IF counts[i][1] = targetId
            THEN <<targetId, counts[i][2] + 1>> ELSE counts[i]]
    ELSE Append(counts, <<targetId, 1>>)

\* The first loop of resolveDayVoting / resolveMafiaKillTarget from entry k
\* on: votes is the vote object as the sequence of its entries
\* <<voterId, targetId>> in insertion order, voters the list a voter must
\* be found in, alive the list a target must be found in.
RECURSIVE CountVotes(_, _, _, _, _)
CountVotes(votes, voters, alive, k, counts) ==
    IF k > Len(votes) THEN counts
    ELSE LET voterId == votes[k][1]
             targetId == votes[k][2]
         IN  IF ~InList(voters, voterId) \/ ~InList(alive, targetId)
             THEN CountVotes(votes, voters, alive, k + 1, counts)
             ELSE CountVotes(votes, voters, alive, k + 1,
                             CountsAdd(counts, targetId))

\* a count equal to the best so far takes the lead
BestStepTieWins(best, entry) ==
    IF entry[2] >= best.bestCount /\ entry[2] > 0
    THEN [bestTargetId |-> entry[1], bestCount |-> entry[2], tie |-> FALSE]
    ELSE best

\* One turn of the second loop: the entry <<targetId, c>> against the best
\* so far
BestStep(best, entry) ==
    IF entry[2] > best.bestCount
    THEN [bestTargetId |-> entry[1], bestCount |-> entry[2], tie |-> FALSE]
    ELSE IF entry[2] = best.bestCount /\ entry[2] > 0
    THEN [best EXCEPT !.tie = TRUE]
    ELSE best

RECURSIVE BestLoop(_, _, _)
BestLoop(counts, k, best) ==
    IF k > Len(counts) THEN best
    ELSE BestLoop(counts, k + 1, BestStep(best, counts[k]))

\* The outcome of the two loops: the selected id, or Null for
\* (!bestTargetId || bestCount === 0 || tie)
PickTarget(votes, voters, alive) ==
    LET counts == CountVotes(votes, voters, alive, 1, <<>>)
        best == BestLoop(counts, 1,
                    [bestTargetId |-> Null, bestCount |-> 0, tie |-> FALSE])
    IN  IF best.bestTargetId = Null \/ best.bestCount = 0 \/ best.tie
        THEN Null
        ELSE best.bestTargetId

\* the win check left out
WinCheckSkipped(room) == room

\* winner = checkWin(room); if (winner) endGame(roomCode, winner)
WinCheck(room) ==
    IF checkWin(room) # Null THEN endGame(room, checkWin(room)) ELSE room

resolveDayVoting(room) ==
    LET alive == alivePlayers(room)
        bestTargetId == PickTarget(room.dayVotes, alive, alive)
        e == FindPlayer(room.players, bestTargetId)
    IN  IF bestTargetId = Null
        THEN [room EXCEPT !.announcement = <<"Voting ended: no one", Null>>]
        ELSE WinCheck(
                IF e # 0 /\ room.players[e].alive
                THEN [room EXCEPT
                        !.players[e].alive = FALSE,
                        !.announcement = <<"Voting result: eliminated",
                                           bestTargetId>>]
                ELSE room)

resolveMafiaKillTarget(room) ==
    LET alive == alivePlayers(room)
        mafiaAlive == SelectSeq(alive, LAMBDA p : p.role = MAFIA)
    IN  PickTarget(room.night.mafiaVotes, mafiaAlive, alive)

\* the protection is not looked at
resolveNightKillUnprotected(room) ==
    LET mafiaTargetId == resolveMafiaKillTarget(room)
        t == FindPlayer(room.players, mafiaTargetId)
    IN  IF mafiaTargetId = Null
        THEN [room EXCEPT !.announcement = <<"Night result: no kill", Null>>]
        ELSE IF t = 0 \/ ~room.players[t].alive
        THEN [room EXCEPT
                !.announcement = <<"Night result: invalid target", Null>>]
        ELSE WinCheck([room EXCEPT
                !.players[t].alive = FALSE,
                !.announcement = <<"Night result: killed", mafiaTargetId>>])

resolveNightKill(room) ==
    LET mafiaTargetId == resolveMafiaKillTarget(room)
        t == FindPlayer(room.players, mafiaTargetId)
    IN  IF mafiaTargetId = Null
        THEN [room EXCEPT !.announcement = <<"Night result: no kill", Null>>]
        ELSE IF t = 0 \/ ~room.players[t].alive
        THEN [room EXCEPT
                !.announcement = <<"Night result: invalid target", Null>>]
        ELSE IF room.night.doctorTargetId # Null
                /\ room.night.doctorTargetId = mafiaTargetId
        THEN [room EXCEPT
                !.announcement = <<"Night result: saved", mafiaTargetId>>]
        ELSE WinCheck([room EXCEPT
                !.players[t].alive = FALSE,
                !.announcement = <<"Night result: killed", mafiaTargetId>>])

\* the answers swapped
resolveDetectiveSwapped(room) ==
    LET d == SelectSeq(room.players,
                       LAMBDA p : p.alive /\ p.role = DETECTIVE)
        targetId == room.night.detectiveTargetId
        t == FindPlayer(room.players, targetId)
    IN  IF Len(d) = 0 \/ targetId = Null THEN Null
        ELSE IF t = 0 \/ ~room.players[t].alive THEN Null
        ELSE IF room.players[t].role = MAFIA THEN "NOT MAFIA" ELSE "MAFIA"

\* resolveDetective only sends the private result: the room is unchanged.
\* The message it sends, Null when it sends none.
resolveDetective(room) ==
    LET d == SelectSeq(room.players,
                       LAMBDA p : p.alive /\ p.role = DETECTIVE)
        targetId == room.night.detectiveTargetId
        t == FindPlayer(room.players, targetId)
    IN  IF Len(d) = 0 \/ targetId = Null THEN Null
        ELSE IF t = 0 \/ ~room.players[t].alive THEN Null
        ELSE IF room.players[t].role = MAFIA THEN "MAFIA" ELSE "NOT MAFIA"

----------------------------------------------------------------------------
(* advancePhase *)

\* the round is counted when the night ends, not when the day begins
advancePhaseEarlyRound(room) ==
    CASE room.phase = ENDED -> room
      [] room.phase = LOBBY -> room
      [] room.phase = DAY_DISCUSSION -> startPhase(room, DAY_VOTING)
      [] room.phase = DAY_VOTING ->
            LET r == resolveDayVoting(room)
            IN  IF r.phase = ENDED THEN r ELSE startPhase(r, SLEEP)
      [] room.phase = SLEEP -> startPhase(room, PH_DOCTOR)
      [] room.phase = PH_DOCTOR -> startPhase(room, PH_MAFIA)
      [] room.phase = PH_MAFIA -> startPhase(room, EXECUTION)
      [] room.phase = EXECUTION ->
            LET r == resolveNightKill(room)
            IN  IF r.phase = ENDED THEN r ELSE startPhase(r, PH_DETECTIVE)
      [] room.phase = PH_DETECTIVE ->
            startPhase([room EXCEPT !.round = @ + 1], ANNOUNCEMENT)
      [] room.phase = ANNOUNCEMENT -> startPhase(room, DAY_DISCUSSION)

advancePhase(room) ==
    CASE room.phase = ENDED -> room
      [] room.phase = LOBBY -> room
      [] room.phase = DAY_DISCUSSION -> startPhase(room, DAY_VOTING)
      [] room.phase = DAY_VOTING ->
            LET r == resolveDayVoting(room)
            IN  IF r.phase = ENDED THEN r ELSE startPhase(r, SLEEP)
      [] room.phase = SLEEP -> startPhase(room, PH_DOCTOR)
      [] room.phase = PH_DOCTOR -> startPhase(room, PH_MAFIA)
      [] room.phase = PH_MAFIA -> startPhase(room, EXECUTION)
      [] room.phase = EXECUTION ->
            LET r == resolveNightKill(room)
            IN  IF r.phase = ENDED THEN r ELSE startPhase(r, PH_DETECTIVE)
      [] room.phase = PH_DETECTIVE -> startPhase(room, ANNOUNCEMENT)
      [] room.phase = ANNOUNCEMENT ->
            startPhase([room EXCEPT !.round = @ + 1], DAY_DISCUSSION)

----------------------------------------------------------------------------
(* assignRoles *)

\* The shuffle loop from index i (0-based, as in the code) down to 1;
\* draw[i] is Math.floor(Math.random() * (i + 1)) of turn i.
RECURSIVE Shuffle(_, _, _)
Shuffle(roles, i, draw) ==
    IF i < 1 THEN roles
    ELSE LET j == draw[i]
         IN  Shuffle([roles EXCEPT ![i + 1] = roles[j + 1],
                                   ![j + 1] = roles[i + 1]],
                     i - 1, draw)

\* the third Mafia member comes with the tenth player
mafiaCountLate(n) ==
    IF n >= 13 THEN 4
    ELSE IF n >= 10 /\ n <= 12 THEN 3
    ELSE 2

mafiaCount(n) ==
    IF n >= 13 THEN 4
    ELSE IF n >= 9 /\ n <= 12 THEN 3
    ELSE 2

\* roles before the shuffle: DOCTOR, DETECTIVE, mafiaCount x MAFIA, then
\* TOWN while roles.length < n
RolesFor(n) ==
    LET k == mafiaCount(n)
        len == IF n > k + 2 THEN n ELSE k + 2
    IN  [i \in 1..len |->
            IF i = 1 THEN DOCTOR
            ELSE IF i = 2 THEN DETECTIVE
            ELSE IF i <= k + 2 THEN MAFIA
            ELSE TOWN]

assignRoles(room, draw) ==
    LET n == Len(room.players)
        roles == Shuffle(RolesFor(n), Len(RolesFor(n)) - 1, draw)
    IN  [room EXCEPT !.players =
            [idx \in 1..n |->
                [room.players[idx] EXCEPT !.role = roles[idx],
                                          !.alive = TRUE]]]

\* The outcomes of Math.random the model draws: every turn takes the lowest
\* index, or every turn takes the highest
Draws(len) ==
    {[i \in 1..(len - 1) |-> 0], [i \in 1..(len - 1) |-> i]}

----------------------------------------------------------------------------
(* The socket handlers.  s is socket.id of the sender. *)

NewRoom(s) ==
    [hostId |-> s,
     phase |-> LOBBY,
     phaseEndsAt |-> NoDeadline,
     round |-> 1,
     announcement |-> <<"Room created", Null>>,
     timer |-> FALSE,
     players |-> <<>>,
     dayVotes |-> <<>>,
     night |-> [doctorTargetId |-> Null,
                mafiaVotes |-> <<>>,
                detectiveTargetId |-> Null]]

\* makeRoomCode is drawn again while the code is in use
create_room(s, roomCode) ==
    /\ roomCode \notin DOMAIN rooms
    /\ rooms' = [c \in DOMAIN rooms \cup {roomCode} |->
                    IF c = roomCode THEN NewRoom(s) ELSE rooms[c]]
    /\ order' = Append(order, roomCode)
    /\ UNCHANGED <<stale, gone>>

\* a room takes players in every phase
JoinAcceptedAnyPhase(roomCode) == roomCode \in DOMAIN rooms

JoinAccepted(roomCode) ==
    /\ roomCode \in DOMAIN rooms
    /\ rooms[roomCode].phase = LOBBY

join_room(s, roomCode) ==
    /\ IF JoinAccepted(roomCode)
       THEN rooms' = [rooms EXCEPT ![roomCode].players =
                        Append(@, [id |-> s, role |-> Null, alive |-> TRUE])]
       ELSE UNCHANGED rooms
    /\ UNCHANGED <<order, stale, gone>>

\* any connection may start the game
StartAcceptedAnyone(s, roomCode) ==
    /\ roomCode \in DOMAIN rooms
    /\ Len(rooms[roomCode].players) >= MinPlayers

StartAccepted(s, roomCode) ==
    /\ roomCode \in DOMAIN rooms
    /\ s = rooms[roomCode].hostId
    /\ Len(rooms[roomCode].players) >= MinPlayers

start_game(s, roomCode, draw) ==
    /\ IF StartAccepted(s, roomCode)
       THEN rooms' = [rooms EXCEPT ![roomCode] =
                        startPhase(
                            [assignRoles(@, draw) EXCEPT
                                !.announcement = <<"Game started", Null>>],
                            DAY_DISCUSSION)]
       ELSE UNCHANGED rooms
    /\ UNCHANGED <<order, stale, gone>>

\* the sender's record and the target's record are found and alive
AliveAt(room, id) ==
    /\ FindPlayer(room.players, id) # 0
    /\ room.players[FindPlayer(room.players, id)].alive

RoleAt(room, id) == room.players[FindPlayer(room.players, id)].role

\* every write adds an entry
ObjAppend(obj, key, value) == Append(obj, <<key, value>>)

\* obj[key] = value on an object kept as the sequence of its entries
ObjSet(obj, key, value) ==
    IF \E i \in 1..Len(obj) : obj[i][1] = key
    THEN [i \in 1..Len(obj) |->
            IF obj[i][1] = key THEN <<key, value>> ELSE obj[i]]
    ELSE Append(obj, <<key, value>>)

\* the target is not looked at
VoteAcceptedAnyTarget(s, roomCode, targetId) ==
    /\ roomCode \in DOMAIN rooms
    /\ rooms[roomCode].phase = DAY_VOTING
    /\ AliveAt(rooms[roomCode], s)

VoteAccepted(s, roomCode, targetId) ==
    /\ roomCode \in DOMAIN rooms
    /\ rooms[roomCode].phase = DAY_VOTING
    /\ AliveAt(rooms[roomCode], s)
    /\ AliveAt(rooms[roomCode], targetId)

cast_vote(s, roomCode, targetId) ==
    /\ IF VoteAccepted(s, roomCode, targetId)
       THEN rooms' = [rooms EXCEPT ![roomCode].dayVotes =
                        ObjSet(@, s, targetId)]
       ELSE UNCHANGED rooms
    /\ UNCHANGED <<order, stale, gone>>

ProtectAccepted(s, roomCode, targetId) ==
    /\ roomCode \in DOMAIN rooms
    /\ rooms[roomCode].phase = PH_DOCTOR
    /\ AliveAt(rooms[roomCode], s)
    /\ RoleAt(rooms[roomCode], s) = DOCTOR
    /\ AliveAt(rooms[roomCode], targetId)

doctor_protect(s, roomCode, targetId) ==
    /\ IF ProtectAccepted(s, roomCode, targetId)
       THEN rooms' = [rooms EXCEPT
                        ![roomCode].night.doctorTargetId = targetId]
       ELSE UNCHANGED rooms
    /\ UNCHANGED <<order, stale, gone>>

KillVoteAccepted(s, roomCode, targetId) ==
    /\ roomCode \in DOMAIN rooms
    /\ rooms[roomCode].phase = PH_MAFIA
    /\ AliveAt(rooms[roomCode], s)
    /\ RoleAt(rooms[roomCode], s) = MAFIA
    /\ AliveAt(rooms[roomCode], targetId)

mafia_vote_kill(s, roomCode, targetId) ==
    /\ IF KillVoteAccepted(s, roomCode, targetId)
       THEN rooms' = [rooms EXCEPT ![roomCode].night.mafiaVotes =
                        ObjSet(@, s, targetId)]
       ELSE UNCHANGED rooms
    /\ UNCHANGED <<order, stale, gone>>

CheckAccepted(s, roomCode, targetId) ==
    /\ roomCode \in DOMAIN rooms
    /\ rooms[roomCode].phase = PH_DETECTIVE
    /\ AliveAt(rooms[roomCode], s)
    /\ RoleAt(rooms[roomCode], s) = DETECTIVE
    /\ AliveAt(rooms[roomCode], targetId)

detective_check(s, roomCode, targetId) ==
    /\ IF CheckAccepted(s, roomCode, targetId)
       THEN rooms' = [rooms EXCEPT
                        ![roomCode].night.detectiveTargetId = targetId]
       ELSE UNCHANGED rooms
    /\ UNCHANGED <<order, stale, gone>>

\* The player branch of the disconnect handler on one room that holds a
\* record of s: the first such record dies, then the win check
PlayerLeft(room, s) ==
    WinCheck([room EXCEPT
        !.players[FindPlayer(room.players, s)].alive = FALSE,
        !.announcement = <<"disconnected", s>>])

\* the codes of the rooms s hosts, in the order the Map iterates them
Hosted(s) == SelectSeq(order, LAMBDA c : rooms[c].hostId = s)

disconnect(s) ==
    /\ gone' = gone \cup {s}
    /\ IF Len(Hosted(s)) > 0
       THEN LET roomCode == Hosted(s)[1]
            IN  /\ rooms' = [c \in DOMAIN rooms \ {roomCode} |-> rooms[c]]
                /\ order' = SelectSeq(order, LAMBDA c : c # roomCode)
                /\ stale' = [stale EXCEPT ![roomCode] =
                                IF rooms[roomCode].timer THEN @ + 1 ELSE @]
       ELSE /\ rooms' = [c \in DOMAIN rooms |->
                            IF FindPlayer(rooms[c].players, s) # 0
                            THEN PlayerLeft(rooms[c], s)
                            ELSE rooms[c]]
            /\ UNCHANGED <<order, stale>>

----------------------------------------------------------------------------
(* Wake-ups *)

\* one wake-up advances every room whose timer is pending
TimerFiresEveryRoom(roomCode) ==
    /\ roomCode \in DOMAIN rooms
    /\ rooms[roomCode].timer
    /\ rooms' = [c \in DOMAIN rooms |->
                    IF rooms[c].timer
                    THEN advancePhase([rooms[c] EXCEPT !.timer = FALSE])
                    ELSE rooms[c]]
    /\ UNCHANGED <<order, stale, gone>>

\* the wake-up the room's timer handle names fires
TimerFires(roomCode) ==
    /\ roomCode \in DOMAIN rooms
    /\ rooms[roomCode].timer
    /\ rooms' = [rooms EXCEPT ![roomCode] =
                    advancePhase([@ EXCEPT !.timer = FALSE])]
    /\ UNCHANGED <<order, stale, gone>>

\* a wake-up left behind by a deleted room fires: advancePhase(roomCode)
\* acts on the room that has the code now, if any
StaleTimerFires(roomCode) ==
    /\ stale[roomCode] > 0
    /\ stale' = [stale EXCEPT ![roomCode] = @ - 1]
    /\ rooms' = IF roomCode \in DOMAIN rooms
                THEN [rooms EXCEPT ![roomCode] = advancePhase(@)]
                ELSE rooms
    /\ UNCHANGED <<order, gone>>

----------------------------------------------------------------------------
(* What the handlers send.  A message is <<to, event, payload>>: to is a   *)
(* socket id (a callback or io.to(id).emit) or a room code                 *)
(* (io.to(roomCode).emit).                                                 *)

\* cb(value) of the request of socket s
Cb(s, value) == <<s, "cb", value>>

\* the role of every player is sent
PublicStateOpen(room) ==
    [hostId |-> room.hostId,
     phase |-> room.phase,
     phaseEndsAt |-> room.phaseEndsAt,
     round |-> room.round,
     announcement |-> room.announcement,
     players |-> [i \in 1..Len(room.players) |->
                    [id |-> room.players[i].id,
                     alive |-> room.players[i].alive,
                     revealedRole |-> room.players[i].role]]]

\* the payload of room_state: roles of alive players are hidden
PublicState(room) ==
    [hostId |-> room.hostId,
     phase |-> room.phase,
     phaseEndsAt |-> room.phaseEndsAt,
     round |-> room.round,
     announcement |-> room.announcement,
     players |-> [i \in 1..Len(room.players) |->
                    [id |-> room.players[i].id,
                     alive |-> room.players[i].alive,
                     revealedRole |-> IF room.players[i].alive THEN Null
                                      ELSE room.players[i].role]]]

emitRoomState(roomCode, room) == <<roomCode, "room_state", PublicState(room)>>

\* sendPrivateRoles from player i on: your_role to every player, and
\* mafia_team to the Mafia
RECURSIVE sendPrivateRoles(_, _)
sendPrivateRoles(room, i) ==
    IF i > Len(room.players) THEN <<>>
    ELSE LET p == room.players[i]
             mafiaIds == SelectSeq(room.players, LAMBDA q : q.role = MAFIA)
         IN  <<<<p.id, "your_role", p.role>>>>
             \o (IF p.role = MAFIA
                 THEN <<<<p.id, "mafia_team",
                          [k \in 1..Len(mafiaIds) |-> mafiaIds[k].id]>>>>
                 ELSE <<>>)
             \o sendPrivateRoles(room, i + 1)

\* what endGame sends for the room it has ended
endGameOut(roomCode, ended) ==
    <<<<roomCode, "game_over",
        [winner |-> ended.announcement[2],
         finalRoles |-> [i \in 1..Len(ended.players) |->
                            [role |-> ended.players[i].role,
                             alive |-> ended.players[i].alive]]]>>,
      emitRoomState(roomCode, ended)>>

\* the socket resolveDetective sends to: the first alive Detective
resolveDetectiveTo(room) ==
    LET d == SelectSeq(room.players,
                       LAMBDA p : p.alive /\ p.role = DETECTIVE)
    IN  IF Len(d) = 0 THEN Null ELSE d[1].id

\* what advancePhase sends when it takes room to after
advancePhaseOut(roomCode, room, after) ==
    IF room.phase \in {ENDED, LOBBY} THEN <<>>
    ELSE (IF room.phase = PH_DETECTIVE /\ resolveDetective(room) # Null
          THEN <<<<resolveDetectiveTo(room), "detective_result",
                   <<room.night.detectiveTargetId, resolveDetective(room)>>>>>>
          ELSE <<>>)
         \o (IF after.phase = ENDED THEN endGameOut(roomCode, after)
             ELSE <<emitRoomState(roomCode, after)>>)

create_roomOut(s, roomCode) ==
    <<Cb(s, roomCode), emitRoomState(roomCode, NewRoom(s))>>

join_roomOut(s, roomCode) ==
    IF roomCode \notin DOMAIN rooms THEN <<Cb(s, "Room not found.")>>
    ELSE IF rooms[roomCode].phase # LOBBY
    THEN <<Cb(s, "Game already started.")>>
    ELSE <<Cb(s, "ok"), emitRoomState(roomCode, rooms'[roomCode])>>

start_gameOut(s, roomCode) ==
    IF roomCode \notin DOMAIN rooms THEN <<Cb(s, "Room not found.")>>
    ELSE IF s # rooms[roomCode].hostId
    THEN <<Cb(s, "Only host can start.")>>
    ELSE IF Len(rooms[roomCode].players) < MinPlayers
    THEN <<Cb(s, "Minimum 6 players required.")>>
    ELSE sendPrivateRoles(rooms'[roomCode], 1)
         \o <<emitRoomState(roomCode, rooms'[roomCode]), Cb(s, "ok")>>

\* the error of the checks the four action handlers share after the phase
\* check: the sender's record, its role when one is asked for, the target
ActorError(room, s, role, notRole, targetId) ==
    IF ~AliveAt(room, s) THEN "You are not alive."
    ELSE IF role # Null /\ RoleAt(room, s) # role THEN notRole
    ELSE IF ~AliveAt(room, targetId) THEN "Target not alive."
    ELSE Null

cast_voteOut(s, roomCode, targetId) ==
    IF roomCode \notin DOMAIN rooms THEN <<Cb(s, "Room not found.")>>
    ELSE IF rooms[roomCode].phase # DAY_VOTING
    THEN <<Cb(s, "Not voting phase.")>>
    ELSE LET e == ActorError(rooms[roomCode], s, Null, Null, targetId)
         IN  IF e # Null THEN <<Cb(s, e)>>
             ELSE <<Cb(s, "ok"), emitRoomState(roomCode, rooms'[roomCode])>>

doctor_protectOut(s, roomCode, targetId) ==
    IF roomCode \notin DOMAIN rooms THEN <<Cb(s, "Room not found.")>>
    ELSE IF rooms[roomCode].phase # PH_DOCTOR
    THEN <<Cb(s, "Not Doctor phase.")>>
    ELSE LET e == ActorError(rooms[roomCode], s, DOCTOR,
                             "You are not Doctor.", targetId)
         IN  IF e # Null THEN <<Cb(s, e)>> ELSE <<Cb(s, "ok")>>

mafia_vote_killOut(s, roomCode, targetId) ==
    IF roomCode \notin DOMAIN rooms THEN <<Cb(s, "Room not found.")>>
    ELSE IF rooms[roomCode].phase # PH_MAFIA
    THEN <<Cb(s, "Not Mafia phase.")>>
    ELSE LET e == ActorError(rooms[roomCode], s, MAFIA,
                             "You are not Mafia.", targetId)
         IN  IF e # Null THEN <<Cb(s, e)>> ELSE <<Cb(s, "ok")>>

detective_checkOut(s, roomCode, targetId) ==
    IF roomCode \notin DOMAIN rooms THEN <<Cb(s, "Room not found.")>>
    ELSE IF rooms[roomCode].phase # PH_DETECTIVE
    THEN <<Cb(s, "Not Detective phase.")>>
    ELSE LET e == ActorError(rooms[roomCode], s, DETECTIVE,
                             "You are not Detective.", targetId)
         IN  IF e # Null THEN <<Cb(s, e)>> ELSE <<Cb(s, "ok")>>

\* what the player branch of disconnect sends for the rooms of codes[k..]
RECURSIVE PlayerLeftOut(_, _, _)
PlayerLeftOut(s, codes, k) ==
    IF k > Len(codes) THEN <<>>
    ELSE LET c == codes[k]
         IN  (IF FindPlayer(rooms[c].players, s) = 0 THEN <<>>
              ELSE (IF checkWin(rooms'[c]) # Null
                    THEN endGameOut(c, rooms'[c]) ELSE <<>>)
                   \o <<emitRoomState(c, rooms'[c])>>)
             \o PlayerLeftOut(s, codes, k + 1)

disconnectOut(s) ==
    IF Len(Hosted(s)) > 0
    THEN <<<<Hosted(s)[1], "room_closed", "Host disconnected. Room closed.">>>>
    ELSE PlayerLeftOut(s, order, 1)

TimerFiresOut(roomCode) ==
    advancePhaseOut(roomCode, [rooms[roomCode] EXCEPT !.timer = FALSE],
                    rooms'[roomCode])

StaleTimerFiresOut(roomCode) ==
    IF roomCode \in DOMAIN rooms
    THEN advancePhaseOut(roomCode, rooms[roomCode], rooms'[roomCode])
    ELSE <<>>

----------------------------------------------------------------------------
(* The specification *)

Init ==
    /\ rooms = <<>>
    /\ order = <<>>
    /\ stale = [c \in Codes |-> 0]
    /\ gone = {}
    /\ out = <<>>

\* the records of a room that its host or a connection already in it sent
ExtraJoins(room) ==
    Cardinality({i \in 1..Len(room.players) :
        \/ room.players[i].id = room.hostId
        \/ \E j \in 1..(i - 1) : room.players[j].id = room.players[i].id})

\* the connections the environment E lets join a room next: the first of
\* PlayerConns that is not in it yet, and those of E.extraJoiners that host
\* it or are in it already; once the room has left the lobby, those of
\* E.lateJoiners
JoinInputs(E, roomCode) ==
    IF roomCode \notin DOMAIN rooms THEN {PlayerConns[1]} \ gone
    ELSE LET room == rooms[roomCode]
             fresh == {i \in 1..Len(PlayerConns) :
                         FindPlayer(room.players, PlayerConns[i]) = 0}
             next == IF fresh = {} THEN {}
                     ELSE {PlayerConns[CHOOSE i \in fresh :
                                          \A k \in fresh : i <= k]}
             extra == IF ExtraJoins(room) < MaxExtraJoins
                      THEN {x \in E.extraJoiners :
                              \/ x = room.hostId
                              \/ FindPlayer(room.players, x) # 0}
                      ELSE {}
         IN  IF room.phase # LOBBY THEN E.lateJoiners \ gone
             ELSE IF Len(room.players) < MaxPlayers
             THEN (next \cup extra) \ gone
             ELSE {}

\* the model does not drive a room past MaxRound
RoundBound(roomCode) ==
    roomCode \in DOMAIN rooms =>
        ~(rooms[roomCode].phase = ANNOUNCEMENT
          /\ rooms[roomCode].round >= MaxRound)

\* the phase of the room a request names, LOBBY when there is none
PhaseOf(roomCode) ==
    IF roomCode \in DOMAIN rooms THEN rooms[roomCode].phase ELSE LOBBY

\* out after a step that sent msgs: the messages, where E observes them
Emit(E, msgs) == out' = IF E.observed THEN msgs ELSE out

\* The next-state relation under an environment E: the codes makeRoomCode
\* returns and the sets the senders and the targets of each request are drawn
\* from.
Env(E) ==
    \/ \E s \in E.hosts \ gone, c \in E.codes :
            create_room(s, c) /\ Emit(E, create_roomOut(s, c))
    \/ \E c \in E.codes \cup E.badCodes :
            \E s \in JoinInputs(E, c) :
                join_room(s, c) /\ Emit(E, join_roomOut(s, c))
    \/ \E s \in E.starters \ gone, c \in E.codes \cup E.badCodes :
            /\ PhaseOf(c) \in E.startPhases
            /\ \E draw \in Draws(IF c \in DOMAIN rooms
                                 THEN Len(RolesFor(Len(rooms[c].players)))
                                 ELSE 1) :
                    start_game(s, c, draw) /\ Emit(E, start_gameOut(s, c))
    \/ \E s \in E.dayVoters \ gone, c \in E.codes \cup E.badCodes,
          t \in E.dayTargets :
            cast_vote(s, c, t) /\ Emit(E, cast_voteOut(s, c, t))
    \/ \E s \in E.doctors \ gone, c \in E.codes \cup E.badCodes,
          t \in E.protectTargets :
            doctor_protect(s, c, t) /\ Emit(E, doctor_protectOut(s, c, t))
    \/ \E s \in E.killers \ gone, c \in E.codes \cup E.badCodes,
          t \in E.killTargets :
            mafia_vote_kill(s, c, t) /\ Emit(E, mafia_vote_killOut(s, c, t))
    \/ \E s \in E.detectives \ gone, c \in E.codes \cup E.badCodes,
          t \in E.checkTargets :
            detective_check(s, c, t) /\ Emit(E, detective_checkOut(s, c, t))
    \/ \E s \in E.leavers \ gone : disconnect(s) /\ Emit(E, disconnectOut(s))
    \/ \E c \in E.codes :
            RoundBound(c) /\ TimerFires(c) /\ Emit(E, TimerFiresOut(c))
    \/ \E c \in E.codes :
            RoundBound(c) /\ StaleTimerFires(c)
                /\ Emit(E, StaleTimerFiresOut(c))

\* The environment of Spec: the life of a room.  Two hosts, a host that
\* joins its own room, restarts in every phase, one day voter.
Lifecycle ==
    [codes |-> Codes,
     hosts |-> {"h", "g"},
     badCodes |-> {BadCode},
     extraJoiners |-> {"h"},
     starters |-> {"h", "g", "p1"},
     startPhases |-> {LOBBY, ENDED} \cup TimedPhases,
     dayVoters |-> {"p1"},
     dayTargets |-> {"p4", "p5"},
     doctors |-> {"p1", "p6"},
     protectTargets |-> {"p4"},
     killers |-> {"p3"},
     killTargets |-> {"p4", "p5"},
     detectives |-> {"p1", "p2"},
     checkTargets |-> {"p4"},
     leavers |-> {"h", "p3"},
     lateJoiners |-> {},
     observed |-> FALSE]

Next == Env(Lifecycle)

Spec == Init /\ [][Next]_vars

\* The environment of SpecVote: the votes of a game.  One host, one start,
\* three day voters, every Mafia member votes at night, a player who joined
\* twice and who drops.
Voting ==
    [codes |-> Codes,
     hosts |-> {"h"},
     badCodes |-> {},
     extraJoiners |-> {"p5"},
     starters |-> {"h"},
     startPhases |-> {LOBBY},
     dayVoters |-> {"p1", "p2", "p5"},
     dayTargets |-> {"p4", "p5"},
     doctors |-> {"p1", "p6"},
     protectTargets |-> {"p5"},
     killers |-> {"p2", "p3", "p4"},
     killTargets |-> {"p4", "p5"},
     detectives |-> {"p2"},
     checkTargets |-> {"p3"},
     leavers |-> {"h", "p5"},
     lateJoiners |-> {},
     observed |-> FALSE]

NextVote == Env(Voting)

SpecVote == Init /\ [][NextVote]_vars

\* The environment of SpecObs: the requests of one game with what the
\* server answers.  Requests of players that are not the role holder, are
\* dead or are not in the room, for targets that are dead or not in the
\* room, a join after the start, a Doctor who drops, a host who drops.
Observed ==
    [codes |-> Codes,
     hosts |-> {"h"},
     badCodes |-> {BadCode},
     extraJoiners |-> {},
     starters |-> {"h", "p1"},
     startPhases |-> {LOBBY},
     dayVoters |-> {"p1", "p4"},
     dayTargets |-> {"p4", "p7"},
     doctors |-> {"p1", "p2"},
     protectTargets |-> {"p5"},
     killers |-> {"p3", "p1"},
     killTargets |-> {"p5"},
     detectives |-> {"p2", "p3"},
     checkTargets |-> {"p3", "p5"},
     leavers |-> {"h", "p1"},
     lateJoiners |-> {"p7"},
     observed |-> TRUE]

NextObs == Env(Observed)

SpecObs == Init /\ [][NextObs]_vars

\* SpecFill: role assignment and win check on lobbies of every size from
\* MinPlayers to MaxLobby.  The room starts as create_room and the joins of
\* connections "1", "2", ... leave it; the host starts the game once, with
\* four outcomes of the shuffle, and then the players drop in any order.
LobbyOf(n) ==
    [NewRoom("h") EXCEPT !.players =
        [i \in 1..n |-> [id |-> ToString(i), role |-> Null, alive |-> TRUE]]]

InitFill ==
    /\ \E n \in MinPlayers..MaxLobby : rooms = [c \in {"A"} |-> LobbyOf(n)]
    /\ order = <<"A">>
    /\ stale = [c \in Codes |-> 0]
    /\ gone = {}
    /\ out = <<>>

\* more outcomes of Math.random: every turn takes the middle index, or the
\* even turns take the lowest index and the odd ones their own
DrawsFill(len) ==
    Draws(len) \cup {[i \in 1..(len - 1) |-> i \div 2],
                     [i \in 1..(len - 1) |-> IF i % 2 = 0 THEN 0 ELSE i]}

NextFill ==
    \/ /\ rooms["A"].phase = LOBBY
       /\ \E draw \in DrawsFill(Len(RolesFor(Len(rooms["A"].players)))) :
            start_game("h", "A", draw)
       /\ UNCHANGED out
    \/ /\ rooms["A"].phase # LOBBY
       /\ \E i \in 1..Len(rooms["A"].players) :
            ToString(i) \notin gone /\ disconnect(ToString(i))
       /\ UNCHANGED out

SpecFill == InitFill /\ [][NextFill]_vars

\* SpecRooms: two rooms at a time.  makeRoomCode returns one of two codes;
\* each room has its host, and the same connections join both.  The room
\* with code A gets the day votes and the protections, the room with code B
\* the mafia votes and the investigations, and the host of B drops.
Codes2 == {"A", "B"}

RoomsA ==
    [codes |-> {"A"},
     hosts |-> {"h"},
     badCodes |-> {},
     extraJoiners |-> {},
     starters |-> {"h"},
     startPhases |-> {LOBBY},
     dayVoters |-> {"p1"},
     dayTargets |-> {"p4"},
     doctors |-> {"p1"},
     protectTargets |-> {"p5"},
     killers |-> {},
     killTargets |-> {},
     detectives |-> {},
     checkTargets |-> {},
     leavers |-> {},
     lateJoiners |-> {},
     observed |-> FALSE]

RoomsB ==
    [codes |-> {"B"},
     hosts |-> {"g"},
     badCodes |-> {},
     extraJoiners |-> {},
     starters |-> {"g"},
     startPhases |-> {LOBBY},
     dayVoters |-> {},
     dayTargets |-> {},
     doctors |-> {},
     protectTargets |-> {},
     killers |-> {"p3"},
     killTargets |-> {"p5"},
     detectives |-> {"p2"},
     checkTargets |-> {"p3"},
     leavers |-> {"g"},
     lateJoiners |-> {},
     observed |-> FALSE]

InitRooms ==
    /\ rooms = <<>>
    /\ order = <<>>
    /\ stale = [c \in Codes2 |-> 0]
    /\ gone = {}
    /\ out = <<>>

NextRooms == Env(RoomsA) \/ Env(RoomsB)

SpecRooms == InitRooms /\ [][NextRooms]_vars

\* SpecLeave: connections that are in more than one room drop.  Connection h
\* hosts the room with code A and can host the one with code B as well;
\* connection p1 plays in A and can host B; the players join both rooms.
\* h and p1 disconnect.
LeaveA ==
    [RoomsA EXCEPT !.leavers = {"h", "p1"}]

LeaveB ==
    [RoomsB EXCEPT !.hosts = {"h", "p1"},
                   !.starters = {"h", "p1"},
                   !.leavers = {}]

NextLeave == Env(LeaveA) \/ Env(LeaveB)

SpecLeave == InitRooms /\ [][NextLeave]_vars

\* SpecLive: Spec with the scheduling of the wake-ups.  A wake-up that
\* setTimeout has scheduled fires unless clearTimeout removes it first.
\* startPhase clears the room's pending wake-up and schedules a fresh one:
\* Superseded(c) is a step that does so without the wake-up firing, which is
\* an accepted start_game on a room whose wake-up is pending, or a wake-up
\* left behind by a deleted room that advances the room.  A wake-up that
\* stays pending forever without firing and without being superseded is
\* what the scheduler rules out; a wake-up left behind by a deleted room is
\* never cleared and fires.
Superseded(c) ==
    /\ c \in DOMAIN rooms
    /\ rooms[c].timer
    /\ \/ \E s \in Lifecycle.starters :
            /\ StartAccepted(s, c)
            /\ \E draw \in Draws(Len(RolesFor(Len(rooms[c].players)))) :
                    start_game(s, c, draw)
       \/ rooms[c].phase \in TimedPhases /\ StaleTimerFires(c)

Scheduling ==
    \A c \in Codes :
        /\ WF_vars(/\ RoundBound(c)
                   /\ TimerFires(c) \/ Superseded(c)
                   /\ UNCHANGED out)
        /\ WF_vars(RoundBound(c) /\ StaleTimerFires(c) /\ UNCHANGED out)

SpecLive == Init /\ [][Next]_vars /\ Scheduling

----------------------------------------------------------------------------
(* Sessions.  restore_session exists only in the later revision of the     *)
(* server (src/public/client.js), where create_room and join_room hand a   *)
(* token to the caller and keep it in room.hostToken and player.token, and *)
(* where the disconnect handler keeps the room and the player.             *)

\* the token of the host and of the i-th player, as makeToken made them
HostToken == "th"
TokenOf(i) == "t" \o ToString(i)
\* a token no room holds
BadToken == "tx"

\* room.players.find((p) => p.token === token): the index of the first
\* record with this token, 0 when there is none
FindToken(players, token) ==
    IF \E i \in 1..Len(players) : players[i].token = token
    THEN CHOOSE i \in 1..Len(players) :
            /\ players[i].token = token
            /\ \A j \in 1..(i - 1) : players[j].token # token
    ELSE 0

\* the record is made anew for the connection, as join_room makes one
rebindAsJoin(player, s) ==
    [id |-> s, token |-> player.token, name |-> player.name,
     role |-> Null, alive |-> TRUE]

\* player.id = socket.id
rebind(player, s) == [player EXCEPT !.id = s]

restore_session(s, roomCode, token) ==
    /\ IF roomCode \notin DOMAIN rooms \/ token = ""
       THEN UNCHANGED rooms
       ELSE IF rooms[roomCode].hostToken = token
       THEN rooms' = [rooms EXCEPT ![roomCode].hostId = s]
       ELSE LET i == FindToken(rooms[roomCode].players, token)
            IN  IF i = 0 THEN UNCHANGED rooms
                ELSE rooms' = [rooms EXCEPT ![roomCode].players[i] =
                                    rebind(@, s)]
    /\ UNCHANGED <<order, stale, gone>>

restore_sessionOut(s, roomCode, token) ==
    IF roomCode \notin DOMAIN rooms THEN <<Cb(s, "Room not found.")>>
    ELSE IF token = "" THEN <<Cb(s, "Invalid token.")>>
    ELSE IF rooms[roomCode].hostToken = token
    THEN <<emitRoomState(roomCode, rooms'[roomCode]), Cb(s, "ok")>>
    ELSE LET i == FindToken(rooms[roomCode].players, token)
             mafiaIds == SelectSeq(rooms[roomCode].players,
                                   LAMBDA q : q.role = MAFIA)
         IN  IF i = 0 THEN <<Cb(s, "Session not found.")>>
             ELSE <<<<s, "your_role", rooms[roomCode].players[i].role>>>>
                  \o (IF rooms[roomCode].players[i].role = MAFIA
                      THEN <<<<s, "mafia_team",
                               [k \in 1..Len(mafiaIds) |-> mafiaIds[k].name]>>>>
                      ELSE <<>>)
                  \o <<emitRoomState(roomCode, rooms'[roomCode]),
                       Cb(s, "ok")>>

\* The disconnect handler of the later revision: the first room s hosts
\* loses its host id; a player's record is left as it is
disconnectKeep(s) ==
    /\ gone' = gone \cup {s}
    /\ IF Len(Hosted(s)) > 0
       THEN rooms' = [rooms EXCEPT ![Hosted(s)[1]].hostId = Null]
       ELSE UNCHANGED rooms
    /\ UNCHANGED <<order, stale>>

disconnectKeepOut(s) ==
    IF Len(Hosted(s)) > 0
    THEN <<emitRoomState(Hosted(s)[1], rooms'[Hosted(s)[1]])>>
    ELSE <<>>

\* A room of the later revision with n players who joined over connections
\* p1, p2, ...: in the lobby, or with the roles dealt in the order assignRoles
\* lists them and the players of dead killed
SessionRoom(n, phase, round, dead, announcement) ==
    [hostId |-> "h",
     hostToken |-> HostToken,
     phase |-> phase,
     phaseEndsAt |-> IF phase \in {LOBBY, ENDED} THEN NoDeadline
                     ELSE SETTINGS(phase),
     round |-> round,
     announcement |-> announcement,
     timer |-> phase \notin {LOBBY, ENDED},
     players |-> [i \in 1..n |->
                    [id |-> PlayerConns[i],
                     token |-> TokenOf(i),
                     name |-> "N" \o ToString(i),
                     role |-> IF phase = LOBBY THEN Null ELSE RolesFor(n)[i],
                     alive |-> i \notin dead]],
     dayVotes |-> <<>>,
     dayDetectiveUsed |-> FALSE,
     dayDetectiveTargetId |-> Null,
     night |-> [doctorTargetId |-> Null, mafiaVotes |-> <<>>]]

\* the rooms SpecSession starts from: a lobby, a first day, a second day
\* after the Doctor was killed, a game the Mafia won by a second kill
SessionRooms ==
    {SessionRoom(MaxPlayers, LOBBY, 1, {}, <<"Room created", Null>>),
     SessionRoom(MaxPlayers, DAY_VOTING, 1, {}, <<"Game started", Null>>),
     SessionRoom(MaxPlayers, DAY_VOTING, 2, {1},
                 <<"Night result: killed", "p1">>),
     SessionRoom(MaxPlayers, ENDED, 2, {1, 2}, <<"GAME OVER", "MAFIA">>)}

\* the connections that ask for a session: two new ones and a player's
SessionConns == {"n1", "n2", "p2"}
\* the tokens they send: the host's, the Doctor's, a Mafia member's, one
\* that no room holds, none
SessionTokens == {HostToken, TokenOf(1), TokenOf(3), BadToken, ""}
\* the connections that drop
SessionLeavers == {"h", "p1", "n1"}

InitSession ==
    /\ \E room \in SessionRooms : rooms = [c \in {"A"} |-> room]
    /\ order = <<"A">>
    /\ stale = [c \in Codes |-> 0]
    /\ gone = {}
    /\ out = <<>>

NextSession ==
    \/ \E s \in SessionLeavers \ gone :
            disconnectKeep(s) /\ out' = disconnectKeepOut(s)
    \/ \E s \in SessionConns \ gone, c \in Codes \cup {BadCode},
          token \in SessionTokens :
            restore_session(s, c, token)
                /\ out' = restore_sessionOut(s, c, token)

SpecSession == InitSession /\ [][NextSession]_vars

----------------------------------------------------------------------------
(* Properties *)

\* a wake-up of the room with this code fires in this step
WakeUp(c) == TimerFires(c) \/ StaleTimerFires(c)

\* the room with code c is the same room object before and after the step
SameRoom(c) ==
    /\ c \in DOMAIN rooms
    /\ c \in DOMAIN rooms'
    /\ ~(\E s \in Conns : create_room(s, c))

\* The cycle of timed phases without a detective phase
NextInCycle(phase) ==
    CASE phase = DAY_DISCUSSION -> DAY_VOTING
      [] phase = DAY_VOTING     -> SLEEP
      [] phase = SLEEP          -> PH_DOCTOR
      [] phase = PH_DOCTOR      -> PH_MAFIA
      [] phase = PH_MAFIA       -> EXECUTION
      [] phase = EXECUTION      -> ANNOUNCEMENT
      [] phase = ANNOUNCEMENT   -> DAY_DISCUSSION
      [] OTHER                  -> phase

\* C1: a wake-up that fires on a started room moves it from its phase to
\* the next one of the cycle DAY_DISCUSSION, DAY_VOTING, SLEEP, DOCTOR,
\* MAFIA, EXECUTION, ANNOUNCEMENT, DAY_DISCUSSION, or to ENDED.
C1_TimerFollowsCycle ==
    [][\A c \in Codes :
        (WakeUp(c) /\ c \in DOMAIN rooms
            /\ rooms[c].phase \in TimedPhases \ {PH_DETECTIVE})
        => rooms'[c].phase \in {NextInCycle(rooms[c].phase), ENDED}]_vars

\* some record of the room is alive before the step and dead after it
SomeoneDies(c) ==
    \E i \in 1..Len(rooms[c].players) :
        /\ i <= Len(rooms'[c].players)
        /\ rooms[c].players[i].alive
        /\ ~rooms'[c].players[i].alive

WinReached(room) == checkWin(room) # Null

\* C2: a step in which a player's alive flag flips to false leaves the room
\* in ENDED when the win check reports a winner, and no room is in a timed
\* phase while no Mafia is alive or the alive Mafia are at least as many as
\* the other alive players.
C2_WinEndsGame ==
    /\ [](\A c \in DOMAIN rooms :
            rooms[c].phase \in TimedPhases => ~WinReached(rooms[c]))
    /\ [][\A c \in Codes :
            (SameRoom(c) /\ SomeoneDies(c) /\ WinReached(rooms'[c]))
            => rooms'[c].phase = ENDED]_vars

\* reached: a night kill has ended the game for the Mafia
C2_Witness ==
    \E c \in DOMAIN rooms :
        /\ rooms[c].phase = ENDED
        /\ rooms[c].announcement = <<"GAME OVER", "MAFIA">>
        /\ rooms[c].timer = FALSE
        /\ checkWin(rooms[c]) = "MAFIA"
        /\ rooms[c].round = 1
        /\ Len(rooms[c].night.mafiaVotes) > 0

\* C3: once the phase of a room is ENDED no step changes it.
C3_EndedIsTerminal ==
    [][\A c \in Codes :
        (SameRoom(c) /\ rooms[c].phase = ENDED)
        => rooms'[c].phase = ENDED]_vars

\* C4: a room leaves LOBBY only by a start_game of its host with at least
\* 6 players, and then enters DAY_DISCUSSION.
C4_LobbyLeftByStartOnly ==
    [][\A c \in Codes :
        (SameRoom(c) /\ rooms[c].phase = LOBBY /\ rooms'[c].phase # LOBBY)
        => /\ rooms'[c].phase = DAY_DISCUSSION
           /\ Len(rooms[c].players) >= MinPlayers
           /\ \E s \in Conns, draw \in Draws(Len(rooms[c].players)) :
                s = rooms[c].hostId /\ start_game(s, c, draw)]_vars

\* C5: a role that is not null never changes.
C5_RoleAssignedOnce ==
    [][\A c \in Codes :
        SameRoom(c) =>
            \A i \in 1..Len(rooms[c].players) :
                rooms[c].players[i].role # Null
                => rooms'[c].players[i].role = rooms[c].players[i].role]_vars

\* C6: an alive flag that is false never becomes true.
C6_DeadStaysDead ==
    [][\A c \in Codes :
        SameRoom(c) =>
            \A i \in 1..Len(rooms[c].players) :
                ~rooms[c].players[i].alive
                => ~rooms'[c].players[i].alive]_vars

\* the Map of counts the day resolution / the night resolution builds
DayCounts(room) ==
    CountVotes(room.dayVotes, alivePlayers(room), alivePlayers(room), 1, <<>>)

NightCounts(room) ==
    CountVotes(room.night.mafiaVotes,
               SelectSeq(alivePlayers(room), LAMBDA p : p.role = MAFIA),
               alivePlayers(room), 1, <<>>)

\* x has a positive count that is greater than the count of every other
\* candidate
StrictMax(counts, x) ==
    \E i \in 1..Len(counts) :
        /\ counts[i][1] = x
        /\ counts[i][2] > 0
        /\ \A j \in 1..Len(counts) : j # i => counts[j][2] < counts[i][2]

\* the ids of the records that are alive before the step and dead after it
Died(c) ==
    {rooms[c].players[i].id : i \in
        {k \in 1..Len(rooms[c].players) :
            rooms[c].players[k].alive /\ ~rooms'[c].players[k].alive}}

\* C7: the resolution of a tally (day votes, mafia kill votes) selects
\* candidate x exactly if the count of x is positive and greater than every
\* other count; without such a candidate nobody is eliminated or killed by
\* the resolution, and nobody but the selected candidate ever is.
C7_StrictMaxSelected ==
    [][\A c \in Codes :
        (WakeUp(c) /\ c \in DOMAIN rooms
            /\ rooms[c].phase \in {DAY_VOTING, EXECUTION})
        => LET room == rooms[c]
               day == room.phase = DAY_VOTING
               counts == IF day THEN DayCounts(room) ELSE NightCounts(room)
               picked == IF day
                         THEN PickTarget(room.dayVotes, alivePlayers(room),
                                         alivePlayers(room))
                         ELSE resolveMafiaKillTarget(room)
           IN  /\ \A x \in Conns : picked = x <=> StrictMax(counts, x)
               /\ picked = Null <=> ~(\E x \in Conns : StrictMax(counts, x))
               /\ \A x \in Died(c) : StrictMax(counts, x)
               /\ (~(\E x \in Conns : StrictMax(counts, x)))
                    => rooms'[c].players = room.players
               /\ \A x \in Conns :
                    (day /\ StrictMax(counts, x) /\ AliveAt(room, x))
                    => x \in Died(c)]_vars

\* reached: a day vote of two against one has eliminated the candidate of
\* the two
C7_Witness ==
    \E c \in DOMAIN rooms :
        /\ rooms[c].phase = SLEEP
        /\ Len(rooms[c].dayVotes) = 3
        /\ \E x \in Conns :
            /\ rooms[c].announcement = <<"Voting result: eliminated", x>>
            /\ ~AliveAt(rooms[c], x)
            /\ Cardinality({i \in 1..3 : rooms[c].dayVotes[i][2] = x}) = 2

\* the entries of a vote object that a voter has
EntriesOf(votes, s) == {i \in 1..Len(votes) : votes[i][1] = s}

\* the voters whose entry in a vote object names candidate x
VotersFor(votes, x) == {votes[i][1] : i \in {k \in 1..Len(votes) : votes[k][2] = x}}

\* C8: a voter has at most one entry in a tally; an accepted vote makes the
\* voter's entry name the new target and leaves the entries of the other
\* voters as they are; the count a resolution gives a candidate is at most
\* the number of voters whose entry names it.  So a resolution counts at
\* most one vote of each voter, the latest.  (A step that leaves the object
\* as it is repeats the recorded vote.)
C8_LatestVoteOnly ==
    /\ [](\A c \in DOMAIN rooms :
            LET day == DayCounts(rooms[c])
                night == NightCounts(rooms[c])
            IN  /\ \A s \in Conns :
                    /\ Cardinality(EntriesOf(rooms[c].dayVotes, s)) <= 1
                    /\ Cardinality(EntriesOf(rooms[c].night.mafiaVotes, s))
                            <= 1
                /\ \A i \in 1..Len(day) :
                    day[i][2] <= Cardinality(
                        VotersFor(rooms[c].dayVotes, day[i][1]))
                /\ \A i \in 1..Len(night) :
                    night[i][2] <= Cardinality(
                        VotersFor(rooms[c].night.mafiaVotes, night[i][1])))
    /\ [][\A c \in Codes :
            /\ (c \in DOMAIN rooms /\ rooms[c].phase = DAY_VOTING
                    /\ c \in DOMAIN rooms'
                    /\ rooms'[c].dayVotes # rooms[c].dayVotes)
                => \A s \in Voting.dayVoters, t \in Voting.dayTargets :
                    (VoteAccepted(s, c, t) /\ cast_vote(s, c, t))
                    => LET old == rooms[c].dayVotes
                           new == rooms'[c].dayVotes
                       IN  /\ \E i \in 1..Len(new) : new[i] = <<s, t>>
                           /\ \A i \in 1..Len(old) :
                                old[i][1] # s => new[i] = old[i]
                           /\ Len(new) = Len(old)
                                + (IF EntriesOf(old, s) = {} THEN 1 ELSE 0)
            /\ (c \in DOMAIN rooms /\ rooms[c].phase = PH_MAFIA
                    /\ c \in DOMAIN rooms'
                    /\ rooms'[c].night.mafiaVotes # rooms[c].night.mafiaVotes)
                => \A s \in Voting.killers, t \in Voting.killTargets :
                    (KillVoteAccepted(s, c, t) /\ mafia_vote_kill(s, c, t))
                    => LET old == rooms[c].night.mafiaVotes
                           new == rooms'[c].night.mafiaVotes
                       IN  /\ \E i \in 1..Len(new) : new[i] = <<s, t>>
                           /\ \A i \in 1..Len(old) :
                                old[i][1] # s => new[i] = old[i]
                           /\ Len(new) = Len(old)
                                + (IF EntriesOf(old, s) = {} THEN 1 ELSE 0)]_vars

\* reached: in DAY_VOTING a voter whose vote for one target is recorded can
\* cast an accepted vote for another target
C8_Witness ==
    \E c \in DOMAIN rooms : \E s \in Conns : \E t \in Conns :
        /\ rooms[c].phase = DAY_VOTING
        /\ EntriesOf(rooms[c].dayVotes, s) # {}
        /\ \A i \in EntriesOf(rooms[c].dayVotes, s) :
                rooms[c].dayVotes[i][2] # t
        /\ VoteAccepted(s, c, t)
        /\ Len(rooms[c].dayVotes) = 3

\* the counts of the entries whose voter is eligible (alive, at night alive
\* and Mafia) and whose target is alive, as the handlers find a player
EligibleCounts(room, votes, night, k, counts) ==
    LET ok(i) == /\ AliveAt(room, votes[i][1])
                 /\ night => RoleAt(room, votes[i][1]) = MAFIA
                 /\ AliveAt(room, votes[i][2])
        RECURSIVE Go(_, _)
        Go(i, acc) == IF i > Len(votes) THEN acc
                      ELSE Go(i + 1, IF ok(i) THEN CountsAdd(acc, votes[i][2])
                                     ELSE acc)
    IN  Go(k, counts)

\* C9: at resolution a recorded vote is counted only if its voter is still
\* eligible and its target is still alive.
C9_OnlyEligibleCounted ==
    \A c \in DOMAIN rooms :
        /\ rooms[c].phase = DAY_VOTING
            => DayCounts(rooms[c])
               = EligibleCounts(rooms[c], rooms[c].dayVotes, FALSE, 1, <<>>)
        /\ rooms[c].phase \in {PH_MAFIA, EXECUTION}
            => NightCounts(rooms[c])
               = EligibleCounts(rooms[c], rooms[c].night.mafiaVotes, TRUE,
                                1, <<>>)

NoneAlive(room, role) ==
    ~(\E i \in 1..Len(room.players) :
        room.players[i].alive /\ room.players[i].role = role)

\* C11: when the night resolution finds no Doctor alive and the mafia vote
\* resolved to an alive player x, x is dead afterwards, whatever protection
\* was recorded.
C11_NoDoctorNoProtection ==
    [][\A c \in Codes :
        (WakeUp(c) /\ c \in DOMAIN rooms /\ rooms[c].phase = EXECUTION
            /\ NoneAlive(rooms[c], DOCTOR)
            /\ resolveMafiaKillTarget(rooms[c]) # Null
            /\ AliveAt(rooms[c], resolveMafiaKillTarget(rooms[c])))
        => ~AliveAt(rooms'[c], resolveMafiaKillTarget(rooms[c]))]_vars

\* the alive records of a room that are Mafia, and those that are not
AliveMafia(room) ==
    {i \in 1..Len(room.players) :
        room.players[i].alive /\ room.players[i].role = MAFIA}

AliveOthers(room) ==
    {i \in 1..Len(room.players) :
        room.players[i].alive /\ room.players[i].role # MAFIA}

\* C12: the win check answers TOWN exactly when no Mafia is alive, MAFIA
\* exactly when some Mafia is alive and the alive Mafia are at least as
\* many as the other alive players, and no winner otherwise.
C12_WinEvaluator ==
    \A c \in DOMAIN rooms :
        LET m == Cardinality(AliveMafia(rooms[c]))
            o == Cardinality(AliveOthers(rooms[c]))
        IN  /\ checkWin(rooms[c]) = "TOWN" <=> m = 0
            /\ checkWin(rooms[c]) = "MAFIA" <=> (m # 0 /\ m >= o)
            /\ checkWin(rooms[c]) = Null <=> (m # 0 /\ m < o)

\* reached: the Mafia have won a game with as many Mafia alive as others
C12_Witness ==
    \E c \in DOMAIN rooms :
        /\ Cardinality(AliveMafia(rooms[c])) = 3
        /\ Cardinality(AliveOthers(rooms[c])) = 3
        /\ rooms[c].phase = ENDED
        /\ rooms[c].announcement = <<"GAME OVER", "MAFIA">>

\* some record of the room has this id and is alive
IsAlivePlayer(room, id) ==
    \E i \in 1..Len(room.players) :
        room.players[i].id = id /\ room.players[i].alive

\* some record of the room has this id, is alive and holds this role
IsAliveRole(room, id, role) ==
    \E i \in 1..Len(room.players) :
        /\ room.players[i].id = id
        /\ room.players[i].alive
        /\ room.players[i].role = role

\* the preconditions of a request of kind op from s for target t in room c:
\* the phase of the request, the caller alive (and holding the role of the
\* request), the target alive
Precondition(op, s, c, t) ==
    /\ c \in DOMAIN rooms
    /\ CASE op = "cast_vote" ->
                /\ rooms[c].phase = DAY_VOTING
                /\ IsAlivePlayer(rooms[c], s)
          [] op = "doctor_protect" ->
                /\ rooms[c].phase = PH_DOCTOR
                /\ IsAliveRole(rooms[c], s, DOCTOR)
          [] op = "mafia_vote_kill" ->
                /\ rooms[c].phase = PH_MAFIA
                /\ IsAliveRole(rooms[c], s, MAFIA)
          [] op = "detective_check" ->
                /\ rooms[c].phase = PH_DETECTIVE
                /\ IsAliveRole(rooms[c], s, DETECTIVE)
    /\ IsAlivePlayer(rooms[c], t)

\* the step sent exactly one message, a callback with an error
RepliedError ==
    /\ Len(out') = 1
    /\ out'[1][2] = "cb"
    /\ out'[1][3] \in {"Room not found.", "Not voting phase.",
                       "Not Doctor phase.", "Not Mafia phase.",
                       "Not Detective phase.", "You are not alive.",
                       "You are not Doctor.", "You are not Mafia.",
                       "You are not Detective.", "Target not alive."}

\* the step answered the request with ok, or with an error and no change
\* of any room, according to the preconditions
Answered(op, s, c, t) ==
    IF Precondition(op, s, c, t)
    THEN out'[1] = Cb(s, "ok")
    ELSE RepliedError /\ rooms' = rooms

\* C13: a day vote, a protection, a mafia vote or an investigation whose
\* preconditions hold is answered ok; one that fails a precondition (an
\* unknown room code too) is answered with an error and leaves every room
\* as it is.
C13_RejectedLeavesState ==
    [][(out' # <<>> /\ out'[1][2] = "cb")
        => \A c \in Codes \cup Observed.badCodes :
            LET s == out'[1][1]
            IN  /\ \A t \in Observed.dayTargets :
                    (s \in Observed.dayVoters
                        /\ out' = cast_voteOut(s, c, t)
                        /\ cast_vote(s, c, t))
                    => Answered("cast_vote", s, c, t)
                /\ \A t \in Observed.protectTargets :
                    (s \in Observed.doctors
                        /\ out' = doctor_protectOut(s, c, t)
                        /\ doctor_protect(s, c, t))
                    => Answered("doctor_protect", s, c, t)
                /\ \A t \in Observed.killTargets :
                    (s \in Observed.killers
                        /\ out' = mafia_vote_killOut(s, c, t)
                        /\ mafia_vote_kill(s, c, t))
                    => Answered("mafia_vote_kill", s, c, t)
                /\ \A t \in Observed.checkTargets :
                    (s \in Observed.detectives
                        /\ out' = detective_checkOut(s, c, t)
                        /\ detective_check(s, c, t))
                    => Answered("detective_check", s, c, t)]_vars

\* reached: a player who was eliminated has sent a day vote, which was
\* answered with an error
C13_Witness ==
    \E c \in DOMAIN rooms :
        /\ rooms[c].phase = DAY_VOTING
        /\ rooms[c].round = 2
        /\ FindPlayer(rooms[c].players, "p4") # 0
        /\ ~AliveAt(rooms[c], "p4")
        /\ out = <<Cb("p4", "You are not alive.")>>

\* C14: a start_game of the room's host on a room of at least 6 players is
\* answered ok and puts the room in DAY_DISCUSSION; one of another
\* connection, for an unknown room or for a room of fewer than 6 players is
\* answered with an error and leaves every room, roles, phase and players
\* included, as it is.
C14_StartNeedsHostAndSix ==
    [][(out' # <<>> /\ out'[1][2] \in {"cb", "your_role"})
        => \A c \in Codes \cup Observed.badCodes, s \in Observed.starters :
            \A draw \in Draws(IF c \in DOMAIN rooms
                              THEN Len(RolesFor(Len(rooms[c].players)))
                              ELSE 1) :
                (PhaseOf(c) \in Observed.startPhases
                    /\ out' = start_gameOut(s, c) /\ start_game(s, c, draw))
                => IF /\ c \in DOMAIN rooms
                      /\ s = rooms[c].hostId
                      /\ Len(rooms[c].players) >= 6
                   THEN /\ out'[Len(out')] = Cb(s, "ok")
                        /\ rooms'[c].phase = DAY_DISCUSSION
                   ELSE /\ Len(out') = 1
                        /\ out'[1][3] \in {"Room not found.",
                                           "Only host can start.",
                                           "Minimum 6 players required."}
                        /\ rooms' = rooms]_vars

\* reached: a player of a full lobby has asked for the start and was refused
C14_Witness ==
    \E c \in DOMAIN rooms :
        /\ rooms[c].phase = LOBBY
        /\ Len(rooms[c].players) = 6
        /\ \A i \in 1..6 : rooms[c].players[i].role = Null
        /\ out = <<Cb("p1", "Only host can start.")>>

\* C15: the player list of a room only grows, by one record at its end, in
\* a step that answers a join_room with ok while the room is in LOBBY; the
\* records it has keep their place and their id (death does not remove
\* them); a join_room for a room in another phase is answered with an
\* error and changes nothing.
C15_RecordsOnlyByLobbyJoin ==
    [][\A c \in Codes :
        /\ SameRoom(c)
            => LET old == rooms[c].players
                   new == rooms'[c].players
               IN  /\ Len(new) >= Len(old)
                   /\ \A i \in 1..Len(old) : new[i].id = old[i].id
                   /\ Len(new) > Len(old)
                        => /\ rooms[c].phase = LOBBY
                           /\ Len(new) = Len(old) + 1
                           /\ new[Len(new)].role = Null
                           /\ new[Len(new)].alive
                           /\ out'[1] = Cb(new[Len(new)].id, "ok")
                           /\ join_room(new[Len(new)].id, c)
        /\ (c \in DOMAIN rooms /\ rooms[c].phase # LOBBY)
            => \A s \in Observed.lateJoiners :
                (out' = join_roomOut(s, c) /\ join_room(s, c))
                => /\ out' = <<Cb(s, "Game already started.")>>
                   /\ rooms' = rooms]_vars

\* reached: a connection has asked to join a room whose game is running
\* and was refused
C15_Witness ==
    \E c \in DOMAIN rooms :
        /\ rooms[c].phase = PH_MAFIA
        /\ Len(rooms[c].players) = 6
        /\ ~AliveAt(rooms[c], "p5")
        /\ out = <<Cb("p7", "Game already started.")>>

\* C16: a start_game that takes a room of N >= 6 players out of the lobby
\* leaves exactly one Doctor, one Detective, k Mafia (k = 2 for N < 9, 3 for
\* 9 <= N <= 12, 4 for N >= 13) and N - 2 - k Town, all of them alive.
C16_RoleCounts ==
    [][\A c \in Codes :
        (SameRoom(c) /\ rooms[c].phase = LOBBY
            /\ rooms'[c].phase = DAY_DISCUSSION)
        => LET N == Len(rooms[c].players)
               after == rooms'[c].players
               k == IF N < 9 THEN 2 ELSE IF N <= 12 THEN 3 ELSE 4
           IN  /\ N >= 6
               /\ Len(after) = N
               /\ CountRole(after, DOCTOR) = 1
               /\ CountRole(after, DETECTIVE) = 1
               /\ CountRole(after, MAFIA) = k
               /\ CountRole(after, TOWN) = N - 2 - k
               /\ \A i \in 1..N : after[i].alive]_vars

\* reached: a game of 13 players has started with 4 Mafia, shuffled
C16_Witness ==
    \E c \in DOMAIN rooms :
        /\ rooms[c].phase = DAY_DISCUSSION
        /\ rooms[c].announcement = <<"Game started", Null>>
        /\ Len(rooms[c].players) = 13
        /\ CountRole(rooms[c].players, MAFIA) = 4
        /\ rooms[c].players[1].role # DOCTOR

\* C17: a detective_check of the alive Detective in a phase other than
\* DAY_DISCUSSION and DAY_VOTING is answered with an error and records no
\* target.
C17_InvestigateInDayOnly ==
    [][\A c \in Codes :
        (c \in DOMAIN rooms
            /\ rooms[c].phase \notin {DAY_DISCUSSION, DAY_VOTING})
        => \A s \in Observed.detectives, t \in Observed.checkTargets :
            (IsAliveRole(rooms[c], s, DETECTIVE)
                /\ out' = detective_checkOut(s, c, t)
                /\ detective_check(s, c, t))
            => /\ RepliedError
               /\ rooms'[c].night.detectiveTargetId
                    = rooms[c].night.detectiveTargetId]_vars

\* C18: once an investigation has succeeded, a further detective_check in
\* the same day cycle is answered with an error and leaves the recorded
\* target as it is.
C18_OneInvestigationPerDay ==
    [][\A c \in Codes :
        (c \in DOMAIN rooms /\ rooms[c].phase = PH_DETECTIVE
            /\ rooms[c].night.detectiveTargetId # Null)
        => \A s \in Observed.detectives, t \in Observed.checkTargets :
            (out' = detective_checkOut(s, c, t) /\ detective_check(s, c, t))
            => /\ RepliedError
               /\ rooms'[c].night.detectiveTargetId
                    = rooms[c].night.detectiveTargetId]_vars

\* the messages of a sequence that carry an investigation result
Results(msgs) == {i \in 1..Len(msgs) : msgs[i][2] = "detective_result"}

\* C19: an investigation result is sent only by the wake-up that closes
\* the room's DETECTIVE phase, once, to the only alive Detective of the
\* room, never to a room code; it names the recorded target and says MAFIA
\* exactly when the role of the target is Mafia, NOT MAFIA otherwise.  The
\* room_state of the step is the one of a room without a recorded target,
\* and the connection whose investigation is recorded is that Detective.
C19_ResultPrivateAndTrue ==
    [][/\ \A i \in Results(out') :
            \E c \in Codes :
                /\ WakeUp(c) /\ c \in DOMAIN rooms
                /\ rooms[c].phase = PH_DETECTIVE
                /\ Results(out') = {i}
                /\ out'[i][1] \notin Codes
                /\ IsAliveRole(rooms[c], out'[i][1], DETECTIVE)
                /\ \A s \in Conns :
                        IsAliveRole(rooms[c], s, DETECTIVE) => s = out'[i][1]
                /\ out'[i][3][1] = rooms[c].night.detectiveTargetId
                /\ out'[i][3][2] \in {"MAFIA", "NOT MAFIA"}
                /\ out'[i][3][2] = "MAFIA"
                        <=> RoleAt(rooms[c], out'[i][3][1]) = MAFIA
                /\ \A k \in 1..Len(out') :
                        out'[k][1] \in Codes
                        => /\ out'[k][1] = c
                           /\ out'[k][2] = "room_state"
                           /\ out'[k][3] = PublicState(
                                [rooms'[c] EXCEPT
                                    !.night.detectiveTargetId = Null])
       /\ \A c \in Codes :
            (SameRoom(c)
                /\ rooms'[c].night.detectiveTargetId
                        # rooms[c].night.detectiveTargetId
                /\ rooms'[c].night.detectiveTargetId # Null)
            => /\ out' = <<Cb(out'[1][1], "ok")>>
               /\ IsAliveRole(rooms[c], out'[1][1], DETECTIVE)
               /\ \A s \in Conns :
                    IsAliveRole(rooms[c], s, DETECTIVE) => s = out'[1][1]]_vars

\* reached: the Detective was told that a Mafia member is Mafia
C19_Witness ==
    \E c \in DOMAIN rooms :
        /\ rooms[c].phase = ANNOUNCEMENT
        /\ RoleAt(rooms[c], "p3") = MAFIA
        /\ rooms[c].night.detectiveTargetId = "p3"
        /\ Len(out) = 2
        /\ out[1] = <<"p2", "detective_result", <<"p3", "MAFIA">>>>
        /\ out[2][1] = c

\* C20: the host of a room has no record in the room's player list.
C20_HostNeverPlayer ==
    \A c \in DOMAIN rooms :
        FindPlayer(rooms[c].players, rooms[c].hostId) = 0

\* C21: a step in which a connection drops leaves every room in the
\* registry, with its phase and its player list (membership, roles and
\* alive flags) as they were.
C21_DisconnectKeepsState ==
    [][(gone' # gone)
        => \A c \in DOMAIN rooms :
            /\ c \in DOMAIN rooms'
            /\ rooms'[c].phase = rooms[c].phase
            /\ rooms'[c].players = rooms[c].players]_vars

\* the room but for its host id and the ids of its player records
Durable(room) ==
    [room EXCEPT !.hostId = Null,
                 !.players = [i \in 1..Len(room.players) |->
                                [room.players[i] EXCEPT !.id = Null]]]

\* C22: a restore_session whose token is the host token or a player's token
\* of the room named is answered ok and changes nothing but the connection
\* id of the host slot or of that player's record: tokens, names, roles and
\* alive flags, the number of records and the rest of the room stay; one
\* with another token or an unknown room code is answered with an error and
\* leaves every room as it is.
C22_RestoreRebindsOnly ==
    [][(out' # <<>> /\ out'[Len(out')][2] = "cb")
        => \A c \in Codes \cup {BadCode}, token \in SessionTokens :
            LET s == out'[Len(out')][1]
            IN  (out' = restore_sessionOut(s, c, token)
                    /\ restore_session(s, c, token))
                => IF /\ c \in DOMAIN rooms
                      /\ \/ rooms[c].hostToken = token
                         \/ \E i \in 1..Len(rooms[c].players) :
                                rooms[c].players[i].token = token
                   THEN /\ out'[Len(out')] = Cb(s, "ok")
                        /\ Durable(rooms'[c]) = Durable(rooms[c])
                        /\ IF rooms[c].hostToken = token
                           THEN /\ rooms'[c].hostId = s
                                /\ rooms'[c].players = rooms[c].players
                           ELSE /\ rooms'[c].hostId = rooms[c].hostId
                                /\ \A i \in 1..Len(rooms[c].players) :
                                    rooms'[c].players[i].id =
                                        IF rooms[c].players[i].token = token
                                        THEN s ELSE rooms[c].players[i].id
                   ELSE /\ out' \in {<<Cb(s, "Room not found.")>>,
                                     <<Cb(s, "Invalid token.")>>,
                                     <<Cb(s, "Session not found.")>>}
                        /\ rooms' = rooms]_vars

\* reached: the Doctor, who was killed and whose connection dropped, is
\* back over a new connection, dead and Doctor as before
C22_Witness ==
    \E c \in DOMAIN rooms :
        /\ "p1" \in gone
        /\ rooms[c].phase = DAY_VOTING
        /\ rooms[c].players[1] =
                [id |-> "n1", token |-> "t1", name |-> "N1",
                 role |-> DOCTOR, alive |-> FALSE]
        /\ out[Len(out)] = Cb("n1", "ok")
        /\ out[1] = <<"n1", "your_role", DOCTOR>>

\* the messages of a sequence that carry a public snapshot
Snapshots(msgs) == {k \in 1..Len(msgs) : msgs[k][2] = "room_state"}

\* C23: every room_state a step sends goes to the code of a room of the
\* registry and lists that room's players as they are after the step, each
\* with its id, its alive flag and one more field, which is null for an
\* alive player and the player's role for a dead one, in every phase.
C23_SnapshotHidesAliveRoles ==
    [][\A k \in Snapshots(out') :
        LET c == out'[k][1]
            snap == out'[k][3]
        IN  /\ c \in DOMAIN rooms'
            /\ snap.phase = rooms'[c].phase
            /\ Len(snap.players) = Len(rooms'[c].players)
            /\ \A i \in 1..Len(snap.players) :
                LET p == rooms'[c].players[i]
                    q == snap.players[i]
                IN  /\ DOMAIN q = {"id", "alive", "revealedRole"}
                    /\ q.id = p.id
                    /\ q.alive = p.alive
                    /\ q.alive => q.revealedRole = Null
                    /\ ~q.alive => q.revealedRole = p.role]_vars

\* reached: the snapshot sent after a day vote shows the role of the
\* eliminated player and hides the role of an alive Mafia member
C23_Witness ==
    \E k \in Snapshots(out) :
        LET c == out[k][1]
            snap == out[k][3]
        IN  /\ c \in DOMAIN rooms
            /\ snap.phase = SLEEP
            /\ \E i \in 1..Len(snap.players) :
                /\ ~snap.players[i].alive
                /\ snap.players[i].revealedRole = rooms[c].players[i].role
                /\ snap.players[i].revealedRole # Null
            /\ \E j \in 1..Len(snap.players) :
                /\ snap.players[j].alive
                /\ rooms[c].players[j].role = MAFIA
                /\ snap.players[j].revealedRole = Null

\* C24: the round of a room is 1 when the room is created and at least 1
\* ever after; the wake-up that takes the room from ANNOUNCEMENT to
\* DAY_DISCUSSION adds exactly 1 to it, and every other step leaves it as
\* it is.
C24_RoundCounter ==
    /\ [](\A c \in DOMAIN rooms : rooms[c].round >= 1)
    /\ [][\A c \in Codes :
            /\ (c \notin DOMAIN rooms /\ c \in DOMAIN rooms')
                => rooms'[c].round = 1
            /\ (c \in DOMAIN rooms /\ c \in DOMAIN rooms')
                => IF rooms[c].phase = ANNOUNCEMENT /\ WakeUp(c)
                   THEN /\ rooms'[c].phase = DAY_DISCUSSION
                        /\ rooms'[c].round = rooms[c].round + 1
                   ELSE rooms'[c].round = rooms[c].round]_vars

\* reached: a room has come to its second day, and a player was eliminated
\* on the first
C24_Witness ==
    \E c \in DOMAIN rooms :
        /\ rooms[c].phase = DAY_DISCUSSION
        /\ rooms[c].round = 2
        /\ rooms[c].announcement[1] # "Game started"
        /\ \E i \in 1..Len(rooms[c].players) : ~rooms[c].players[i].alive

\* C25: the deadline of a room is absent exactly when its phase is LOBBY or
\* ENDED; in a timed phase it is the deadline of that phase.
C25_DeadlinePresence ==
    \A c \in DOMAIN rooms :
        /\ rooms[c].phaseEndsAt = NoDeadline
            <=> rooms[c].phase \in {LOBBY, ENDED}
        /\ rooms[c].phase \in TimedPhases
            => rooms[c].phaseEndsAt = SETTINGS(rooms[c].phase)
        /\ rooms[c].phase \in {LOBBY, ENDED} \cup TimedPhases

\* reached: a game that was running has ended, and the room has no deadline
C25_Witness ==
    \E c \in DOMAIN rooms :
        /\ rooms[c].phase = ENDED
        /\ rooms[c].phaseEndsAt = NoDeadline
        /\ rooms[c].round = 2
        /\ \E i \in 1..Len(rooms[c].players) :
                rooms[c].players[i].role = MAFIA

\* the wake-ups that are pending for the room with code c: the one its
\* timer handle names, and those scheduled for a deleted room of this code
PendingWakeUps(c) == (IF rooms[c].timer THEN 1 ELSE 0) + stale[c]

\* C26: at most one wake-up is pending for a room, and none for a room whose
\* game has ended.
C26_OnePendingWakeUp ==
    \A c \in DOMAIN rooms :
        /\ PendingWakeUps(c) <= 1
        /\ rooms[c].phase = ENDED => PendingWakeUps(c) = 0

\* C27: a step that takes a room into DAY_VOTING leaves its day-vote tally
\* empty, one that takes it into DOCTOR leaves the protection absent, one
\* that takes it into MAFIA leaves the mafia-vote tally empty; and the day
\* tally, the protection and the mafia tally change in no step other than
\* such an entry and a request in DAY_VOTING, DOCTOR and MAFIA.  So what a
\* resolution reads was recorded after the last entry.
C27_PhaseEntryResets ==
    [][\A c \in Codes :
        (c \in DOMAIN rooms /\ c \in DOMAIN rooms')
        => LET old == rooms[c]
               new == rooms'[c]
               entered == new.phase # old.phase
           IN  /\ (entered /\ new.phase = DAY_VOTING) => new.dayVotes = <<>>
               /\ (entered /\ new.phase = PH_DOCTOR)
                    => new.night.doctorTargetId = Null
               /\ (entered /\ new.phase = PH_MAFIA)
                    => new.night.mafiaVotes = <<>>
               /\ new.dayVotes # old.dayVotes
                    => /\ new.phase = DAY_VOTING
                       /\ entered \/ Len(new.dayVotes) >= Len(old.dayVotes)
               /\ new.night.doctorTargetId # old.night.doctorTargetId
                    => /\ new.phase = PH_DOCTOR
                       /\ entered \/ new.night.doctorTargetId # Null
               /\ new.night.mafiaVotes # old.night.mafiaVotes
                    => /\ new.phase = PH_MAFIA
                       /\ entered \/ Len(new.night.mafiaVotes)
                                        >= Len(old.night.mafiaVotes)]_vars

\* reached: the second DAY_VOTING of a game has begun with an empty tally
\* after the vote of the first day eliminated a player and the night killed
\* another
C27_Witness ==
    \E c \in DOMAIN rooms :
        /\ rooms[c].phase = DAY_VOTING
        /\ rooms[c].round = 2
        /\ rooms[c].dayVotes = <<>>
        /\ ~AliveAt(rooms[c], "p4")
        /\ ~AliveAt(rooms[c], "p5")
        /\ FindPlayer(rooms[c].players, "p5") # 0
        /\ Len(rooms[c].night.mafiaVotes) = 1

\* the announcements resolveNightKill makes
NightResults ==
    {"Night result: no kill", "Night result: invalid target",
     "Night result: saved", "Night result: killed"}

\* C28: a night result is announced only by the wake-up that takes a room
\* out of EXECUTION; while a room is in EXECUTION its protection and its
\* mafia-vote tally do not change; and that wake-up leaves the room in
\* ANNOUNCEMENT, or in ENDED when the kill decides the game.
C28_KillAfterNightPhases ==
    [][\A c \in Codes :
        (c \in DOMAIN rooms /\ c \in DOMAIN rooms')
        => LET old == rooms[c]
               new == rooms'[c]
           IN  /\ (new.announcement # old.announcement
                        /\ new.announcement[1] \in NightResults)
                    => (old.phase = EXECUTION /\ WakeUp(c))
               /\ (old.phase = EXECUTION /\ new.phase = EXECUTION)
                    => new.night = old.night
               /\ (old.phase = EXECUTION /\ WakeUp(c))
                    => /\ new.phase \in {ANNOUNCEMENT, ENDED}
                       /\ new.phase = ENDED <=> checkWin(new) # Null]_vars

\* the senders and the targets of the requests of SpecRooms
RoomsInputs ==
    [starters |-> RoomsA.starters \cup RoomsB.starters,
     dayVoters |-> RoomsA.dayVoters \cup RoomsB.dayVoters,
     dayTargets |-> RoomsA.dayTargets \cup RoomsB.dayTargets,
     doctors |-> RoomsA.doctors \cup RoomsB.doctors,
     protectTargets |-> RoomsA.protectTargets \cup RoomsB.protectTargets,
     killers |-> RoomsA.killers \cup RoomsB.killers,
     killTargets |-> RoomsA.killTargets \cup RoomsB.killTargets,
     detectives |-> RoomsA.detectives \cup RoomsB.detectives,
     checkTargets |-> RoomsA.checkTargets \cup RoomsB.checkTargets]

\* the step is a request that names the room code a (join, start, day vote,
\* protection, mafia vote, investigation) or a wake-up for that code
AddressedTo(a) ==
    \/ \E s \in PlayerConnSet : join_room(s, a)
    \/ \E s \in RoomsInputs.starters :
        \E draw \in Draws(IF a \in DOMAIN rooms
                          THEN Len(RolesFor(Len(rooms[a].players)))
                          ELSE 1) : start_game(s, a, draw)
    \/ \E s \in RoomsInputs.dayVoters, t \in RoomsInputs.dayTargets :
            cast_vote(s, a, t)
    \/ \E s \in RoomsInputs.doctors, t \in RoomsInputs.protectTargets :
            doctor_protect(s, a, t)
    \/ \E s \in RoomsInputs.killers, t \in RoomsInputs.killTargets :
            mafia_vote_kill(s, a, t)
    \/ \E s \in RoomsInputs.detectives, t \in RoomsInputs.checkTargets :
            detective_check(s, a, t)
    \/ TimerFires(a)
    \/ StaleTimerFires(a)

\* C29: a step in which a room b changes or leaves the registry is no
\* request and no wake-up for another room code a; that is, a request or a
\* wake-up for room a leaves every other room, with its phase, round,
\* tallies, announcement and players, as it is.
C29_RoomsIndependent ==
    [][\A b \in Codes2 :
        (b \in DOMAIN rooms
            /\ (b \notin DOMAIN rooms' \/ rooms'[b] # rooms[b]))
        => \A a \in Codes2 \ {b} : ~AddressedTo(a)]_vars

\* reached: the same six connections play in two rooms, one of which is in
\* the vote of its first day with a vote recorded while the other is in its
\* first night with a mafia vote recorded
C29_Witness ==
    /\ DOMAIN rooms = Codes2
    /\ rooms["A"].phase = DAY_VOTING
    /\ Len(rooms["A"].dayVotes) = 1
    /\ rooms["A"].night.mafiaVotes = <<>>
    /\ rooms["B"].phase = PH_MAFIA
    /\ Len(rooms["B"].night.mafiaVotes) = 1
    /\ rooms["B"].players[1].id = rooms["A"].players[1].id
    /\ rooms["B"].players[1].role # rooms["A"].players[1].role

\* C30: once a room is ENDED and its announcement names the winner, no step
\* on that room changes the announcement.
C30_OutcomeStable ==
    [][\A c \in Codes :
        (SameRoom(c) /\ rooms[c].phase = ENDED
            /\ rooms[c].announcement[1] = "GAME OVER")
        => rooms'[c].announcement = rooms[c].announcement]_vars

----------------------------------------------------------------------------
\* C31: within a room no two player records share a connection identity: a
\* connection that has joined a room gets no second record in it, so that a
\* lookup of a player by connection identity denotes one record.
C31_UniqueRecords ==
    \A c \in DOMAIN rooms :
        \A i, j \in 1..Len(rooms[c].players) :
            rooms[c].players[i].id = rooms[c].players[j].id => i = j

----------------------------------------------------------------------------
\* C32: once the disconnect of a connection has been processed, no room of
\* the registry has the connection as its host and no room has an alive
\* player record of the connection, also when the connection hosted several
\* rooms or hosted one room and played in another.
C32_DisconnectCoversRooms ==
    [][\A s \in gone' \ gone :
          \A c \in DOMAIN rooms' :
              /\ rooms'[c].hostId # s
              /\ \A i \in 1..Len(rooms'[c].players) :
                    rooms'[c].players[i].id = s
                        => ~rooms'[c].players[i].alive]_vars

----------------------------------------------------------------------------
\* the room with code c is registered and in this phase, and the model
\* drives it further
InPhase(c, phase) ==
    /\ c \in DOMAIN rooms
    /\ rooms[c].phase = phase
    /\ RoundBound(c)

\* C33: a room that stays in the registry and is in a timed phase
\* eventually leaves it (for the successor phase or for ENDED), given that
\* scheduled wake-ups eventually fire: no sequence of requests keeps a room
\* in a timed phase forever.
C33_TimedPhaseEnds ==
    \A c \in Codes : \A phase \in TimedPhases :
        InPhase(c, phase) ~> ~InPhase(c, phase)

====
